---- MODULE Spec2Model ----
(***************************************************************************)
(* Model of bundled/tool/lsp_server.py: the workspace settings store, the  *)
(* settings resolver, the strategy selector and the two dispatcher entry   *)
(* points (_run_tool_on_document, _run_tool), run by a pool of MAX_WORKERS *)
(* workers.                                                                *)
(*                                                                         *)
(* Python dicts are functions with a string domain (records); a dict whose *)
(* iteration order matters (WORKSPACE_SETTINGS) is a sequence of key/value *)
(* entries in insertion order.  File system paths are sequences of path    *)
(* segments, <<>> being the file system root "/".                          *)
(***************************************************************************)
EXTENDS Integers, Sequences, FiniteSets, TLC

VARIABLES
    WORKSPACE_SETTINGS,  \* the module's dict of that name
    GLOBAL_SETTINGS,     \* the module's dict of that name
    pc,                  \* pc[w]: where worker w stands
    call,                \* call[w]: the locals of the handler worker w runs
    last,                \* the handler call that ended last: what it was given,
                         \* returned, raised and logged
    sys_path             \* sys.path, the interpreter's module search path

vars == <<WORKSPACE_SETTINGS, GLOBAL_SETTINGS, pc, call, last, sys_path>>

(* ---------------------------- bounds ----------------------------------- *)
\* the longest "settings" list a client sends
MaxPayload == 2

(* ------------------------ program constants ---------------------------- *)
MAX_WORKERS == 2
TOOL_MODULE == "unittest_generator"
TOOL_ARGS == <<>>

Workers == 1..MAX_WORKERS

(* ------------------------- the environment ----------------------------- *)
\* os.getcwd()
getcwd == <<"w">>
\* sys.executable
sys_executable == "py"
\* the directory sysconfig reports for the standard library
StdlibDir == <<"lib">>

ExtraArgLists == {<<>>, <<"-x">>}

\* sys.path as the interpreter starts, the bundled libs directory next to
\* the server, and LS_IMPORT_STRATEGY (unset: "useBundled")
StartPath == <<"site">>
LibsDir == "libs"
ImportStrategy == "useBundled"
\* the directory the tool puts on sys.path when it changes it
ToolDir == "tool"

\* pygls uris.from_fs_path / uris.to_fs_path: a file URI is the scheme
\* "file" put in front of the path; to_fs_path drops the scheme again.
from_fs_path(p) == [scheme |-> "file", path |-> p]
to_fs_path(uri) == uri.path

\* pathlib.Path(p).parent; the parent of the root is the root.
Parent(p) == IF p = <<>> THEN <<>> ELSE SubSeq(p, 1, Len(p) - 1)

\* {**d1, **d2}
Merge(d1, d2) ==
    [k \in (DOMAIN d1) \cup (DOMAIN d2) |->
        IF k \in DOMAIN d2 THEN d2[k] ELSE d1[k]]

\* d.get(k, default)
DictGet(d, k, default) == IF k \in DOMAIN d THEN d[k] ELSE default

EmptyDict == [k \in {} |-> <<>>]

(* ------------------- insertion-ordered dict WORKSPACE_SETTINGS --------- *)
Keys(S) == {S[i].key : i \in DOMAIN S}
HasKey(S, k) == k \in Keys(S)
Lookup(S, k) == S[CHOOSE i \in DOMAIN S : S[i].key = k].val
\* S[k] = v : an existing key keeps its position, a new key goes last
SetItem(S, k, v) ==
    IF HasKey(S, k)
    THEN [i \in DOMAIN S |-> IF S[i].key = k THEN [key |-> k, val |-> v] ELSE S[i]]
    ELSE Append(S, [key |-> k, val |-> v])

(* --------------------------- inputs ------------------------------------ *)
\* one entry of the "settings" list of the configuration payload
\* the entries of the "settings" list a client sends, one per workspace
\* folder; the one of the root folder carries a cwd and a workspaceFS of its own
Entry(root, path, interpreter, args) ==
    [workspace |-> from_fs_path(root), path |-> path, interpreter |-> interpreter,
     args |-> args, importStrategy |-> "useBundled", showNotifications |-> "off"]

PayloadEntries ==
    { Entry(<<"a">>, <<"/usr/bin/tool">>, <<"other">>, <<"--check">>),
      Entry(<<"a", "b">>, <<>>, <<"./py">>, <<"--check">>),
      Merge(Entry(<<>>, <<>>, <<"other">>, <<>>),
            [cwd |-> <<"z">>, workspaceFS |-> <<"z">>]) }

\* the "globalSettings" map of the configuration payload
GlobalPayloads ==
    { EmptyDict, [interpreter |-> <<>>, args |-> <<"-g">>] }

\* the payloads of initialize: "settings" lists of at most MaxPayload
\* entries, one per workspace folder
RECURSIVE SeqsUpTo(_, _)
SeqsUpTo(S, n) ==
    IF n = 0 THEN {<<>>}
    ELSE LET shorter == SeqsUpTo(S, n - 1)
         IN  shorter \cup { Append(q, e) : q \in {x \in shorter : Len(x) = n - 1}, e \in S }

DistinctWorkspaces(q) ==
    \A i, j \in DOMAIN q : i # j => q[i].workspace # q[j].workspace

Payloads == { q \in SeqsUpTo(PayloadEntries, MaxPayload) : DistinctWorkspaces(q) }

\* documents handed over by the protocol layer (uri, path, source); isNone
\* stands for "no document", hasPath = FALSE for document.path is None
NoDocument ==
    [isNone |-> TRUE, hasPath |-> FALSE, uri |-> from_fs_path(<<>>), path |-> <<>>,
     source |-> "ok"]
FileDocument(p, src) ==
    [isNone |-> FALSE, hasPath |-> TRUE, uri |-> from_fs_path(p), path |-> p,
     source |-> src]
PathlessDocument ==
    [isNone |-> FALSE, hasPath |-> FALSE, uri |-> [scheme |-> "untitled", path |-> <<>>],
     path |-> <<>>, source |-> "ok"]
NotebookCell ==
    [isNone |-> FALSE, hasPath |-> TRUE,
     uri |-> [scheme |-> "vscode-notebook-cell", path |-> <<"a", "n">>],
     path |-> <<"a", "n">>, source |-> "ok"]

DocPaths == { <<"a", "b", "c", "f">>, <<"a", "f">>, <<"z", "f">>, <<"f">> }
FileDocuments ==
    { FileDocument(<<"a", "b", "c", "f">>, "ok"), FileDocument(<<"z", "f">>, "ok"),
      FileDocument(<<"a", "f">>, "syntax error"),
      FileDocument(StdlibDir \o <<"f">>, "ok"),
      FileDocument(StdlibDir \o <<"f">>, "syntax error"),
      NotebookCell }
ResolveInputs == { NoDocument, PathlessDocument } \cup { FileDocument(p, "ok") : p \in DocPaths }

(* ------------------------------ sys.path ------------------------------- *)
InPath(path, d) == \E i \in DOMAIN path : path[i] = d

\* update_sys_path: the bundled libs directory goes first or last
update_sys_path(path, path_to_add, strategy) ==
    IF InPath(path, path_to_add) THEN path
    ELSE IF strategy = "useBundled" THEN <<path_to_add>> \o path
    ELSE IF strategy = "fromEnvironment" THEN Append(path, path_to_add)
    ELSE path

\* sys.path with its slice taken
SlicePath_Same(path) == [obj |-> "same", val |-> path]

\* sys.path[:] : a new list with the elements of sys.path
SlicePath(path) == [obj |-> "copy", val |-> path]

\* utils.substitute_attr(sys, "path", new), on entry: the list sys.path
\* named is kept for the exit and sys.path names the new one.  aliased says
\* that the two are one list, so that a change of the one is a change of
\* the other.
SubstituteEnter(path, new) ==
    [saved |-> path, current |-> new.val, aliased |-> new.obj = "same"]

\* the tool run by utils.run_module may put its directory on sys.path
ToolPath(path, touches) ==
    IF touches /\ ~InPath(path, ToolDir) THEN <<ToolDir>> \o path ELSE path

\* the list kept for the exit, after the tool changed the list sys.path names
SavedAfterTool(sub, path) == IF sub.aliased THEN path ELSE sub.saved

\* utils.substitute_attr on exit, reached by return and by exception:
\* sys.path names the kept list again
SubstituteExit(saved) == saved

\* the with block of the in-process backend run without interruption:
\* sys.path when it is left
ScopedRun(path, touches) ==
    LET sub == SubstituteEnter(path, SlicePath(path))
        during == ToolPath(sub.current, touches)
    IN  [during |-> during,
         after |-> SubstituteExit(SavedAfterTool(sub, during))]

(* ------------------------- the settings store -------------------------- *)
\* _get_global_defaults
_get_global_defaults(G) ==
    [path |-> DictGet(G, "path", <<>>),
     interpreter |-> DictGet(G, "interpreter", <<sys_executable>>),
     args |-> DictGet(G, "args", <<>>),
     importStrategy |-> DictGet(G, "importStrategy", "useBundled"),
     showNotifications |-> DictGet(G, "showNotifications", "off")]

\* the record _update_workspace_settings stores when the payload is empty,
\* and the one-off record of _get_settings_by_document
DefaultRecord(key, defaults) ==
    Merge([cwd |-> key, workspaceFS |-> key, workspace |-> from_fs_path(key)], defaults)

\* EntryRecord with the entry's own fields written last
EntryRecord_SettingLast(key, setting) ==
    Merge([cwd |-> key, workspaceFS |-> key], setting)

\* the record the loop of _update_workspace_settings stores for one entry
EntryRecord(key, setting) ==
    Merge(Merge([cwd |-> key], setting), [workspaceFS |-> key])

\* one iteration of the loop of _update_workspace_settings
UpdateOne(S, setting) ==
    LET key == to_fs_path(setting.workspace)
    IN  SetItem(S, key, EntryRecord(key, setting))

\* the whole loop, run without interruption
RECURSIVE UpdateAll(_, _, _)
UpdateAll(S, settings, i) ==
    IF i > Len(settings) THEN S
    ELSE UpdateAll(UpdateOne(S, settings[i]), settings, i + 1)

\* {s["workspaceFS"] for s in WORKSPACE_SETTINGS.values()}
WorkspaceSet(S) == { S[i].val.workspaceFS : i \in DOMAIN S }

\* the while loop of _get_document_key and _get_settings_by_path: the set
\* holding the first path on the way up that is a workspace, {} when the
\* root is reached first (the root itself is never tested)
RECURSIVE WalkUp(_, _)
WalkUp(p, workspaces) ==
    IF p = Parent(p) THEN {}
    ELSE IF p \in workspaces THEN {p}
    ELSE WalkUp(Parent(p), workspaces)

\* _get_document_key: {} stands for None
_get_document_key(S, document) ==
    IF S # <<>> THEN WalkUp(document.path, WorkspaceSet(S)) ELSE {}

Returned(rec) == [ok |-> TRUE, exc |-> "", rec |-> rec]
Raised(e) == [ok |-> FALSE, exc |-> e, rec |-> EmptyDict]

\* _get_settings_by_document with the document's path, not its parent, as
\* the key of the record it makes up
_get_settings_by_document_OwnPath(S, G, document) ==
    IF document.isNone \/ ~document.hasPath
    THEN IF S = <<>> THEN Raised("IndexError") ELSE Returned(S[1].val)
    ELSE LET keys == _get_document_key(S, document)
         IN  IF keys = {}
             THEN Returned(DefaultRecord(document.path, _get_global_defaults(G)))
             ELSE LET key == CHOOSE k \in keys : TRUE
                  IN  IF HasKey(S, key) THEN Returned(Lookup(S, key))
                      ELSE Raised("KeyError")

\* _get_settings_by_document
_get_settings_by_document(S, G, document) ==
    IF document.isNone \/ ~document.hasPath
    THEN IF S = <<>> THEN Raised("IndexError") ELSE Returned(S[1].val)
    ELSE LET keys == _get_document_key(S, document)
         IN  IF keys = {}
             THEN Returned(DefaultRecord(Parent(document.path), _get_global_defaults(G)))
             ELSE LET key == CHOOSE k \in keys : TRUE
                  IN  IF HasKey(S, key) THEN Returned(Lookup(S, key))
                      ELSE Raised("KeyError")

\* _get_settings_by_path
_get_settings_by_path(S, file_path) ==
    LET keys == WalkUp(file_path, WorkspaceSet(S))
    IN  IF keys # {}
        THEN LET key == CHOOSE k \in keys : TRUE
             IN  IF HasKey(S, key) THEN Returned(Lookup(S, key)) ELSE Raised("KeyError")
        ELSE IF S = <<>> THEN Raised("IndexError") ELSE Returned(S[1].val)

(* ---------------------------- collaborators ---------------------------- *)
\* str(path) of the document paths, as it is appended to argv
PathStr(p) ==
    CASE p = <<"a", "b", "c", "f">> -> "/a/b/c/f"
      [] p = <<"a", "f">> -> "/a/f"
      [] p = <<"z", "f">> -> "/z/f"
      [] p = <<"f">> -> "/f"
      [] p = <<"a", "n">> -> "/a/n"
      [] OTHER -> "/lib/f"

\* ast.parse(code) succeeds
Parses(code) == code = "ok"

\* utils.is_stdlib_file: the path lies under the standard library directory
is_stdlib_file(p) ==
    Len(p) >= Len(StdlibDir) /\ SubSeq(p, 1, Len(StdlibDir)) = StdlibDir

\* os.path.normpath of an interpreter path
NormPath(x) == IF x = "./py" THEN "py" ELSE x

\* utils.is_current_interpreter: the path names the running interpreter
is_current_interpreter(executable) == NormPath(executable) = NormPath(sys_executable)

NoException == [kind |-> "none"]
\* utils.RunResult(stdout, stderr)
RunResult(out, err) == [stdout |-> out, stderr |-> err]
\* jsonrpc.RpcRunResult(stdout, stderr, exception)
RpcRunResult(out, err, exc) == [stdout |-> out, stderr |-> err, exception |-> exc]

\* what utils.run_path and utils.run_module can return
RunOutcomes == { RunResult("out", ""), RunResult("", "err") }

\* what jsonrpc.run_over_json_rpc can return: the remote fields of a
\* well-formed response, with or without a remote exception, or the
\* classified transport failure
RpcOutcomes ==
    { RpcRunResult("out", "", NoException),
      RpcRunResult("", "err", NoException),
      RpcRunResult("out", "", [kind |-> "InProcessException"]),
      RpcRunResult("", "", [kind |-> "InProcessException"]),
      RpcRunResult("", "", [kind |-> "RpcTransportError"]) }

(* ------------------------------ logging -------------------------------- *)
log_to_output(what) == [level |-> "Log", what |-> what]
log_error(what) == [level |-> "Error", what |-> what]
log_warning(what) == [level |-> "Warning", what |-> what]

(* --------------------------- the dispatcher ---------------------------- *)
\* is_python: the entries it logs, and its value
is_python_log(code) == IF Parses(code) THEN <<>> ELSE <<log_error("syntax error")>>
is_python(code) == Parses(code)

\* SelectOnDocument with the interpreter tested before the tool path
SelectOnDocument_InterpreterFirst(settings) ==
    IF settings.interpreter # <<>>
       /\ ~is_current_interpreter(settings.interpreter[1])
    THEN [use_path |-> FALSE, use_rpc |-> TRUE]
    ELSE IF settings.path # <<>>
         THEN [use_path |-> TRUE, use_rpc |-> FALSE]
         ELSE [use_path |-> FALSE, use_rpc |-> FALSE]

\* the if / elif / else of _run_tool_on_document that sets use_path, use_rpc
SelectOnDocument(settings) ==
    IF settings.path # <<>>
    THEN [use_path |-> TRUE, use_rpc |-> FALSE]
    ELSE IF settings.interpreter # <<>>
            /\ ~is_current_interpreter(settings.interpreter[1])
         THEN [use_path |-> FALSE, use_rpc |-> TRUE]
         ELSE [use_path |-> FALSE, use_rpc |-> FALSE]

\* the same choice in _run_tool
SelectGlobal(settings) ==
    IF Len(settings.path) > 0
    THEN [use_path |-> TRUE, use_rpc |-> FALSE]
    ELSE IF Len(settings.interpreter) > 0
            /\ ~is_current_interpreter(settings.interpreter[1])
         THEN [use_path |-> FALSE, use_rpc |-> TRUE]
         ELSE [use_path |-> FALSE, use_rpc |-> FALSE]

\* the backend the if use_path / elif use_rpc / else of both entry points runs
Strategy(flags) ==
    IF flags.use_path THEN "DirectPath"
    ELSE IF flags.use_rpc THEN "CrossRuntimeRpc"
    ELSE "InProcessModule"

\* ArgvOnDocument with the call-site args put before the configured ones
ArgvOnDocument_ExtraFirst(settings, flags, document, use_stdin, extra_args) ==
    LET argv0 == IF flags.use_path THEN settings.path ELSE <<TOOL_MODULE>>
        argv1 == argv0 \o TOOL_ARGS \o extra_args \o settings.args
    IN  IF use_stdin THEN argv1 \o <<>> ELSE argv1 \o <<PathStr(document.path)>>

\* argv of _run_tool_on_document
ArgvOnDocument(settings, flags, document, use_stdin, extra_args) ==
    LET argv0 == IF flags.use_path THEN settings.path ELSE <<TOOL_MODULE>>
        argv1 == argv0 \o TOOL_ARGS \o settings.args \o extra_args
    IN  IF use_stdin THEN argv1 \o <<>> ELSE argv1 \o <<PathStr(document.path)>>

\* argv of _run_tool
ArgvGlobal(settings, flags, extra_args) ==
    LET argv0 == IF flags.use_path THEN settings.path ELSE <<TOOL_MODULE>>
    IN  argv0 \o extra_args

\* the two entries both entry points log before they call the backend
InvokeLog(flags) ==
    <<log_to_output("argv"), log_to_output("cwd")>>

\* what the dispatcher does with the backend's result: the entries logged
\* and the result it goes on with
AfterPath(result) ==
    [log |-> IF result.stderr # "" THEN <<log_to_output("stderr")>> ELSE <<>>,
     result |-> result]
AfterRpc(result) ==
    IF result.exception.kind # "none"
    THEN [log |-> <<log_error("exception")>>,
          result |-> RunResult(result.stdout, result.stderr)]
    ELSE [log |-> IF result.stderr # "" THEN <<log_to_output("stderr")>> ELSE <<>>,
          result |-> result]
AfterModule(result) ==
    [log |-> IF result.stderr # "" THEN <<log_to_output("stderr")>> ELSE <<>>,
     result |-> result]

\* the resolver's record used as it is
deepcopy_Same(x) == [obj |-> "same", val |-> x]

\* copy.deepcopy: the copy has the value of the original and shares no
\* list with it
deepcopy(x) == [obj |-> "copy", val |-> x]

\* the store after the dispatcher built argv: with use_path argv is the
\* list settings["path"] and every += extends that list in place, so a
\* stored record that shares it has it extended too
StoreAfterArgv(S, copied, flags, argv) ==
    IF copied.obj = "copy" \/ ~flags.use_path THEN S
    ELSE [i \in DOMAIN S |->
            IF S[i].val = copied.val
            THEN [key |-> S[i].key, val |-> Merge(S[i].val, [path |-> argv])]
            ELSE S[i]]

\* what the backend of a strategy can do: return a result or, for the
\* in-process call of utils.run_module, raise
BackendOutcomes(strategy) ==
    IF strategy = "DirectPath"
    THEN { [raises |-> FALSE, value |-> r] : r \in RunOutcomes }
    ELSE IF strategy = "CrossRuntimeRpc"
    THEN { [raises |-> FALSE, value |-> r] : r \in RpcOutcomes }
    ELSE { [raises |-> FALSE, value |-> r] : r \in RunOutcomes }
         \cup { [raises |-> TRUE, value |-> RunResult("", "")] }

\* Finish with the except clause going on to the end of the function
Finish_Swallow(strategy, outcome, final) ==
    LET after == IF strategy = "DirectPath" THEN AfterPath(outcome.value)
                 ELSE IF strategy = "CrossRuntimeRpc" THEN AfterRpc(outcome.value)
                 ELSE AfterModule(outcome.value)
    IN  [returned |-> "result", exc |-> "", result |-> after.result,
         log |-> (IF outcome.raises THEN <<log_error("traceback")>> ELSE <<>>)
                   \o after.log \o <<log_to_output(final)>>]

\* both entry points from the backend's return to their own: the entries
\* logged, and what is returned or raised
Finish(strategy, outcome, final) ==
    IF outcome.raises
    THEN [returned |-> "raised", exc |-> "Exception", result |-> EmptyDict,
          log |-> <<log_error("traceback")>>]
    ELSE LET after == IF strategy = "DirectPath" THEN AfterPath(outcome.value)
                      ELSE IF strategy = "CrossRuntimeRpc" THEN AfterRpc(outcome.value)
                      ELSE AfterModule(outcome.value)
         IN  [returned |-> "result", exc |-> "", result |-> after.result,
              log |-> after.log \o <<log_to_output(final)>>]

\* PreFilter without the test of the standard library
PreFilter_NoStdlib(document) ==
    IF document.uri.scheme = "vscode-notebook-cell"
    THEN [skip |-> TRUE, log |-> <<>>]
    ELSE IF ~is_python(document.source)
    THEN [skip |-> TRUE,
          log |-> is_python_log(document.source) \o <<log_warning("skipping")>>]
    ELSE [skip |-> FALSE, log |-> is_python_log(document.source)]

\* PreFilter without the test of the notebook cell
PreFilter_NoCell(document) ==
    IF ~is_python(document.source)
    THEN [skip |-> TRUE,
          log |-> is_python_log(document.source) \o <<log_warning("skipping")>>]
    ELSE IF is_stdlib_file(document.path)
    THEN [skip |-> TRUE, log |-> is_python_log(document.source)]
    ELSE [skip |-> FALSE, log |-> is_python_log(document.source)]

\* the three early returns of _run_tool_on_document, in their order: whether
\* the document is skipped, and the entries logged on the way
PreFilter(document) ==
    IF document.uri.scheme = "vscode-notebook-cell"
    THEN [skip |-> TRUE, log |-> <<>>]
    ELSE IF ~is_python(document.source)
    THEN [skip |-> TRUE,
          log |-> is_python_log(document.source) \o <<log_warning("skipping")>>]
    ELSE IF is_stdlib_file(document.path)
    THEN [skip |-> TRUE, log |-> is_python_log(document.source)]
    ELSE [skip |-> FALSE, log |-> is_python_log(document.source)]

\* _run_tool_on_document up to the backend call: the pre-filters, the
\* settings, the strategy and the request
PrepareOnDocument(S, G, document, use_stdin, extra_args) ==
    IF PreFilter(document).skip
    THEN [stage |-> "skipped", log |-> PreFilter(document).log]
    ELSE LET found == _get_settings_by_document(S, G, document)
         IN  IF ~found.ok
             THEN [stage |-> "raised", exc |-> found.exc,
                   log |-> PreFilter(document).log]
             ELSE LET copied == deepcopy(found.rec)
                      settings == copied.val
                      flags == SelectOnDocument(settings)
                  IN  [stage |-> "invoke", settings |-> settings, flags |-> flags,
                       copied |-> copied, strategy |-> Strategy(flags),
                       request |->
                         [argv |-> ArgvOnDocument(settings, flags, document, use_stdin,
                                                  extra_args),
                          use_stdin |-> use_stdin, cwd |-> settings.cwd],
                       log |-> PreFilter(document).log \o InvokeLog(flags)]

\* _run_tool up to the backend call
PrepareGlobal(S, G, extra_args) ==
    LET found == _get_settings_by_document(S, G, NoDocument)
    IN  IF ~found.ok
        THEN [stage |-> "raised", exc |-> found.exc, log |-> <<>>]
        ELSE LET copied == deepcopy(found.rec)
                 settings == copied.val
                 flags == SelectGlobal(settings)
             IN  [stage |-> "invoke", settings |-> settings, flags |-> flags,
                  copied |-> copied, strategy |-> Strategy(flags),
                  request |->
                    [argv |-> ArgvGlobal(settings, flags, extra_args),
                     use_stdin |-> TRUE, cwd |-> settings.workspaceFS],
                  log |-> InvokeLog(flags)]

\* the record of a dispatcher call that ended before any backend call
Ended(op, document, use_stdin, extra_args, p) ==
    [op |-> op, document |-> document, use_stdin |-> use_stdin,
     extra_args |-> extra_args, stage |-> p.stage,
     returned |-> IF p.stage = "skipped" THEN "None" ELSE "raised",
     exc |-> IF p.stage = "skipped" THEN "" ELSE p.exc,
     invoked |-> <<>>, log |-> p.log]

\* the record of a dispatcher call that called its backend
Invoked(op, document, use_stdin, extra_args, p, outcome, final) ==
    LET f == Finish(p.strategy, outcome, final)
    IN  [op |-> op, document |-> document, use_stdin |-> use_stdin,
         extra_args |-> extra_args, stage |-> p.stage,
         settings |-> p.settings, flags |-> p.flags,
         invoked |-> <<[backend |-> p.strategy, request |-> p.request,
                        outcome |-> outcome]>>,
         returned |-> f.returned, exc |-> f.exc, result |-> f.result,
         log |-> p.log \o f.log]

(* ------------------------------- state --------------------------------- *)
\* pc[w] is "idle", "update" (inside the loop of _update_workspace_settings),
\* "inside" (inside the with block of the in-process backend, before the
\* tool ran) or "ran" (inside it, after the tool ran)
IdleCall == [op |-> "none"]
NoCall == [op |-> "none"]

Init ==
    /\ WORKSPACE_SETTINGS = <<>>
    /\ GLOBAL_SETTINGS = EmptyDict
    /\ pc = [w \in Workers |-> "idle"]
    /\ call = [w \in Workers |-> IdleCall]
    /\ last = NoCall
    /\ sys_path = update_sys_path(StartPath, LibsDir, ImportStrategy)

\* the record of an initialize call that returned
Initialized(settings, before) ==
    [op |-> "initialize", settings |-> settings, before |-> before,
     log |-> <<log_to_output("cwd"), log_to_output("sys.path"),
               log_to_output("settings"), log_to_output("global settings")>>]

\* initialize, up to the loop of _update_workspace_settings; with an empty
\* "settings" list there is no loop and the handler runs to its end.  A
\* client sends initialize to a server that is not running one.
Initialize(w, globalSettings, settings) ==
    /\ last = NoCall
    /\ \A u \in Workers : pc[u] = "idle"
    /\ GLOBAL_SETTINGS' = Merge(GLOBAL_SETTINGS, globalSettings)
    /\ IF settings = <<>>
       THEN /\ WORKSPACE_SETTINGS' =
                 SetItem(WORKSPACE_SETTINGS, getcwd,
                         DefaultRecord(getcwd, _get_global_defaults(GLOBAL_SETTINGS')))
            /\ last' = Initialized(settings, WORKSPACE_SETTINGS)
            /\ UNCHANGED <<pc, call>>
       ELSE /\ pc' = [pc EXCEPT ![w] = "update"]
            /\ call' = [call EXCEPT ![w] =
                          [op |-> "initialize", settings |-> settings, i |-> 1,
                           before |-> WORKSPACE_SETTINGS]]
            /\ last' = NoCall
            /\ UNCHANGED WORKSPACE_SETTINGS
    /\ UNCHANGED sys_path

\* one iteration of the loop of _update_workspace_settings; after the last
\* one initialize logs and returns
UpdateStep(w) ==
    /\ last = NoCall
    /\ pc[w] = "update"
    /\ WORKSPACE_SETTINGS' = UpdateOne(WORKSPACE_SETTINGS, call[w].settings[call[w].i])
    /\ IF call[w].i = Len(call[w].settings)
       THEN /\ pc' = [pc EXCEPT ![w] = "idle"]
            /\ call' = [call EXCEPT ![w] = IdleCall]
            /\ last' = Initialized(call[w].settings, call[w].before)
       ELSE /\ pc' = pc
            /\ call' = [call EXCEPT ![w].i = call[w].i + 1]
            /\ last' = NoCall
    /\ UNCHANGED <<GLOBAL_SETTINGS, sys_path>>

\* the updates inside their loop while another worker reads the store: the
\* store each started from and the store each ends with
InFlight(w) ==
    { [old |-> call[u].before,
       new |-> UpdateAll(call[u].before, call[u].settings, 1)] :
         u \in { x \in Workers : x # w /\ pc[x] = "update" } }

\* a call of _get_settings_by_document
Resolve(w, document) ==
    /\ last = NoCall
    /\ pc[w] = "idle"
    /\ last' = [op |-> "resolve", document |-> document,
                out |-> _get_settings_by_document(WORKSPACE_SETTINGS, GLOBAL_SETTINGS,
                                                  document),
                inflight |-> InFlight(w)]
    /\ UNCHANGED <<WORKSPACE_SETTINGS, GLOBAL_SETTINGS, pc, call, sys_path>>

\* a call of _get_settings_by_path
ResolveByPath(w, file_path) ==
    /\ last = NoCall
    /\ pc[w] = "idle"
    /\ last' = [op |-> "resolve_by_path", path |-> file_path,
                out |-> _get_settings_by_path(WORKSPACE_SETTINGS, file_path)]
    /\ UNCHANGED <<WORKSPACE_SETTINGS, GLOBAL_SETTINGS, pc, call, sys_path>>

\* the dispatcher from the backend call to its end, run without
\* interruption: the record of the call and sys.path as it leaves it.  Only
\* the in-process backend puts its call inside substitute_attr.
Dispatch(op, document, use_stdin, extra_args, p, outcome, touches, final, path) ==
    [rec |-> Invoked(op, document, use_stdin, extra_args, p, outcome, final),
     path |-> IF p.strategy = "InProcessModule" THEN ScopedRun(path, touches).after
              ELSE path]

\* the settings a dispatcher call found when it started
Before == [before |-> [store |-> WORKSPACE_SETTINGS, globals |-> GLOBAL_SETTINGS]]

\* a call of _run_tool_on_document
RunOnDocument(w, document, use_stdin, extra_args) ==
    /\ last = NoCall
    /\ pc[w] = "idle"
    /\ LET p == PrepareOnDocument(WORKSPACE_SETTINGS, GLOBAL_SETTINGS, document,
                                  use_stdin, extra_args)
       IN  IF p.stage = "invoke"
           THEN /\ WORKSPACE_SETTINGS' =
                     StoreAfterArgv(WORKSPACE_SETTINGS, p.copied, p.flags, p.request.argv)
                /\ \E o \in BackendOutcomes(p.strategy), t \in BOOLEAN :
                     LET d == Dispatch("run_on_document", document, use_stdin,
                                       extra_args, p, o, t, "uri and stdout", sys_path)
                     IN  last' = Merge(d.rec, Before) /\ sys_path' = d.path
           ELSE /\ last' = Merge(Ended("run_on_document", document, use_stdin,
                                       extra_args, p), Before)
                /\ UNCHANGED <<WORKSPACE_SETTINGS, sys_path>>
    /\ UNCHANGED <<GLOBAL_SETTINGS, pc, call>>

\* a call of _run_tool
RunTool(w, extra_args) ==
    /\ last = NoCall
    /\ pc[w] = "idle"
    /\ LET p == PrepareGlobal(WORKSPACE_SETTINGS, GLOBAL_SETTINGS, extra_args)
       IN  IF p.stage = "invoke"
           THEN /\ WORKSPACE_SETTINGS' =
                     StoreAfterArgv(WORKSPACE_SETTINGS, p.copied, p.flags, p.request.argv)
                /\ \E o \in BackendOutcomes(p.strategy), t \in BOOLEAN :
                     LET d == Dispatch("run_tool", NoDocument, TRUE, extra_args, p, o, t,
                                       "stdout", sys_path)
                     IN  last' = Merge(d.rec, Before) /\ sys_path' = d.path
           ELSE /\ last' = Merge(Ended("run_tool", NoDocument, TRUE, extra_args, p),
                                 Before)
                /\ UNCHANGED <<WORKSPACE_SETTINGS, sys_path>>
    /\ UNCHANGED <<GLOBAL_SETTINGS, pc, call>>

\* the caller takes what the handler returned or raised
Return ==
    /\ last # NoCall
    /\ last' = NoCall
    /\ UNCHANGED <<WORKSPACE_SETTINGS, GLOBAL_SETTINGS, pc, call, sys_path>>

Next ==
    \/ \E w \in Workers, g \in GlobalPayloads, q \in Payloads : Initialize(w, g, q)
    \/ \E w \in Workers : UpdateStep(w)
    \/ \E w \in Workers, d \in ResolveInputs : Resolve(w, d)
    \/ \E w \in Workers, d \in DocPaths : ResolveByPath(w, d)
    \/ \E w \in Workers, d \in FileDocuments, b \in BOOLEAN, x \in ExtraArgLists :
          RunOnDocument(w, d, b, x)
    \/ \E w \in Workers, x \in ExtraArgLists : RunTool(w, x)
    \/ Return

Spec == Init /\ [][Next]_vars

(* ---------------- two workers inside the in-process backend ------------ *)
\* The steps of Spec run a dispatcher call from its first line to its last.
\* The steps below stop where another worker can see or change sys.path:
\* after substitute_attr has put the copy in place, and after the tool ran.
\* sys.path does not depend on the request, so one document and one
\* argument list stand for all of them.
WorkerPayloads == { <<>>, <<Entry(<<"a", "b">>, <<>>, <<"./py">>, <<"--check">>)>> }
WorkerDocuments == { FileDocument(<<"a", "b", "c", "f">>, "ok") }
WorkerArgLists == { <<>> }

\* the workers inside the with block of substitute_attr
Inside == { w \in Workers : pc[w] \in {"inside", "ran"} }

\* worker w enters the with block: the locals of its call.  alone says
\* that no other worker was inside the block while w was.
Entered(w, op, document, use_stdin, extra_args, p, final) ==
    [call EXCEPT
       ![w] = [op |-> op, document |-> document, use_stdin |-> use_stdin,
               extra_args |-> extra_args, p |-> p, final |-> final,
               sub |-> SubstituteEnter(sys_path, SlicePath(sys_path)),
               path_before |-> sys_path, alone |-> Inside = {}],
       ![3 - w] = IF 3 - w \in Inside THEN [call[3 - w] EXCEPT !.alone = FALSE]
                  ELSE call[3 - w]]

\* _run_tool_on_document with the in-process backend, up to the entry of
\* the with block
EnterOnDocument(w, document, use_stdin, extra_args) ==
    /\ last = NoCall
    /\ pc[w] = "idle"
    /\ LET p == PrepareOnDocument(WORKSPACE_SETTINGS, GLOBAL_SETTINGS, document,
                                  use_stdin, extra_args)
       IN  /\ p.stage = "invoke"
           /\ p.strategy = "InProcessModule"
           /\ WORKSPACE_SETTINGS' =
                 StoreAfterArgv(WORKSPACE_SETTINGS, p.copied, p.flags, p.request.argv)
           /\ call' = Entered(w, "run_on_document", document, use_stdin, extra_args, p,
                              "uri and stdout")
    /\ sys_path' = call'[w].sub.current
    /\ pc' = [pc EXCEPT ![w] = "inside"]
    /\ UNCHANGED <<GLOBAL_SETTINGS, last>>

\* _run_tool with the in-process backend, up to the entry of the with block
EnterGlobal(w, extra_args) ==
    /\ last = NoCall
    /\ pc[w] = "idle"
    /\ LET p == PrepareGlobal(WORKSPACE_SETTINGS, GLOBAL_SETTINGS, extra_args)
       IN  /\ p.stage = "invoke"
           /\ p.strategy = "InProcessModule"
           /\ WORKSPACE_SETTINGS' =
                 StoreAfterArgv(WORKSPACE_SETTINGS, p.copied, p.flags, p.request.argv)
           /\ call' = Entered(w, "run_tool", NoDocument, TRUE, extra_args, p, "stdout")
    /\ sys_path' = call'[w].sub.current
    /\ pc' = [pc EXCEPT ![w] = "inside"]
    /\ UNCHANGED <<GLOBAL_SETTINGS, last>>

\* utils.run_module inside the with block: the tool runs, may change the
\* list sys.path names, and returns or raises
RunModule(w, outcome, touches) ==
    /\ last = NoCall
    /\ pc[w] = "inside"
    /\ sys_path' = ToolPath(sys_path, touches)
    /\ call' = [call EXCEPT ![w] =
                  Merge(call[w],
                        [outcome |-> outcome, path_during |-> sys_path',
                         sub |-> [call[w].sub EXCEPT
                                    !.saved = SavedAfterTool(call[w].sub, sys_path')]])]
    /\ pc' = [pc EXCEPT ![w] = "ran"]
    /\ UNCHANGED <<WORKSPACE_SETTINGS, GLOBAL_SETTINGS, last>>

\* the with block is left, by return or by the exception raised again, and
\* the entry point runs to its end
LeaveSubstitute(w) ==
    /\ last = NoCall
    /\ pc[w] = "ran"
    /\ sys_path' = SubstituteExit(call[w].sub.saved)
    /\ last' = Merge(Invoked(call[w].op, call[w].document, call[w].use_stdin,
                             call[w].extra_args, call[w].p, call[w].outcome,
                             call[w].final),
                     [path_before |-> call[w].path_before,
                      path_during |-> call[w].path_during,
                      scoped |-> ~call[w].sub.aliased, alone |-> call[w].alone])
    /\ pc' = [pc EXCEPT ![w] = "idle"]
    /\ call' = [call EXCEPT ![w] = IdleCall]
    /\ UNCHANGED <<WORKSPACE_SETTINGS, GLOBAL_SETTINGS>>

NextWorkers ==
    \/ \E w \in Workers, g \in GlobalPayloads, q \in WorkerPayloads : Initialize(w, g, q)
    \/ \E w \in Workers : UpdateStep(w)
    \/ \E w \in Workers, d \in WorkerDocuments, b \in BOOLEAN, x \in WorkerArgLists :
          EnterOnDocument(w, d, b, x)
    \/ \E w \in Workers, x \in WorkerArgLists : EnterGlobal(w, x)
    \/ \E w \in Workers, o \in BackendOutcomes("InProcessModule"), t \in BOOLEAN :
          RunModule(w, o, t)
    \/ \E w \in Workers : LeaveSubstitute(w)
    \/ Return

SpecWorkers == Init /\ [][NextWorkers]_vars

(* ------------------------------ properties ----------------------------- *)
IsPrefix(r, p) == Len(r) <= Len(p) /\ SubSeq(p, 1, Len(r)) = r

\* the stored workspace roots that are ancestor directories of path p
AncestorRoots(S, p) == { k \in Keys(S) : Len(k) < Len(p) /\ IsPrefix(k, p) }

\* the deepest of a non-empty set of ancestors of one path
Deepest(roots) == CHOOSE k \in roots : \A j \in roots : Len(j) <= Len(k)

Dispatched == last.op \in {"run_on_document", "run_tool"} /\ last.stage = "invoke"

\* the argv prefix of a strategy: the configured tool path for DirectPath,
\* the tool module otherwise
StrategyPrefix(backend, settings) ==
    IF backend = "DirectPath" THEN settings.path ELSE <<TOOL_MODULE>>

\* C1: whenever stored workspace roots are ancestor directories of the
\* document, resolving the document returns the record of the deepest one.
C1_LongestMatch ==
    (last.op = "resolve" /\ last.document.hasPath
       /\ (\A w \in Workers : pc[w] = "idle")
       /\ AncestorRoots(WORKSPACE_SETTINGS, last.document.path) # {})
    => /\ last.out.ok
       /\ last.out.rec =
            Lookup(WORKSPACE_SETTINGS,
                   Deepest(AncestorRoots(WORKSPACE_SETTINGS, last.document.path)))

\* C2: when a replace has ended, the workspace roots of the store are
\* exactly those of its payload, or the current directory alone when the
\* payload was empty.
C2_FullReplace ==
    last.op = "initialize"
    => Keys(WORKSPACE_SETTINGS) =
         IF last.settings = <<>> THEN {getcwd}
         ELSE { to_fs_path(last.settings[i].workspace) : i \in DOMAIN last.settings }

\* C3: a resolve that runs while another worker replaces the store reads
\* either the store the replace started from or the store it ends with.
C3_ReplaceAtomic ==
    last.op = "resolve"
    => \A f \in last.inflight : WORKSPACE_SETTINGS \in {f.old, f.new}

\* C4: both entry points call exactly one backend, chosen by the resolved
\* record alone: DirectPath when its tool path is non-empty; otherwise
\* CrossRuntimeRpc exactly when its interpreter list is non-empty and its
\* first element is not the running interpreter; otherwise InProcessModule.
C4_SelectorPriority ==
    Dispatched
    => /\ Len(last.invoked) = 1
       /\ (last.invoked[1].backend = "DirectPath") <=> (last.settings.path # <<>>)
       /\ (last.invoked[1].backend = "CrossRuntimeRpc")
            <=> (/\ last.settings.path = <<>>
                 /\ last.settings.interpreter # <<>>
                 /\ ~is_current_interpreter(Head(last.settings.interpreter)))
       /\ (last.invoked[1].backend = "InProcessModule")
            <=> (/\ last.settings.path = <<>>
                 /\ \/ last.settings.interpreter = <<>>
                    \/ is_current_interpreter(Head(last.settings.interpreter)))

\* C4 happens: _run_tool chose DirectPath for a record that also names
\* another interpreter.
C4_Witness ==
    /\ Dispatched
    /\ last.op = "run_tool"
    /\ last.invoked[1].backend = "DirectPath"
    /\ last.settings.interpreter = <<"other">>

\* C5: resolve returns a record and raises nothing, in every store and for
\* every input.
C5_ResolveNeverFails ==
    last.op \in {"resolve", "resolve_by_path"} => last.out.ok

\* C6: with an empty store and no document, resolve returns the record
\* synthesized from the global defaults for the current directory.
C6_DefaultFallback ==
    (last.op = "resolve" /\ last.document.isNone /\ WORKSPACE_SETTINGS = <<>>)
    => /\ last.out.ok
       /\ last.out.rec = DefaultRecord(getcwd, _get_global_defaults(GLOBAL_SETTINGS))
       /\ last.out.rec.workspaceFS = getcwd

\* C7: the argv _run_tool_on_document hands to the backend is the strategy
\* prefix, the fixed tool args, the record's args and the call-site args, in
\* that order, with the document path last exactly when use_stdin is false.
C7_ArgvOnDocument ==
    (Dispatched /\ last.op = "run_on_document")
    => LET request == last.invoked[1].request
           head == StrategyPrefix(last.invoked[1].backend, last.settings)
                     \o TOOL_ARGS \o last.settings.args \o last.extra_args
       IN  /\ request.use_stdin = last.use_stdin
           /\ \A i \in DOMAIN last.settings.interpreter :
                 request.argv[1] # last.settings.interpreter[i]
           /\ IF last.use_stdin THEN request.argv = head
              ELSE request.argv = Append(head, PathStr(last.document.path))

\* C7 happens: a DirectPath call with configured and call-site args, not on
\* stdin.
C7_Witness ==
    /\ Dispatched
    /\ last.op = "run_on_document"
    /\ last.invoked[1].backend = "DirectPath"
    /\ ~last.use_stdin
    /\ last.settings.args # <<>>
    /\ last.extra_args # <<>>

\* C8: _run_tool resolves with no document, calls the backend with
\* use_stdin true, and builds argv as _run_tool_on_document does (prefix,
\* fixed args, the record's args, call-site args) without a document path.
C8_ArgvGlobal ==
    (Dispatched /\ last.op = "run_tool")
    => LET request == last.invoked[1].request
       IN  /\ request.use_stdin
           /\ request.argv =
                StrategyPrefix(last.invoked[1].backend, last.settings)
                  \o TOOL_ARGS \o last.settings.args \o last.extra_args

\* C9: after a transport error of the RPC call the dispatcher returns a
\* result with empty stdout and stderr that carries the failure
\* RpcTransportError, and raises nothing.
C9_TransportDegradation ==
    (/\ Dispatched
     /\ last.invoked[1].backend = "CrossRuntimeRpc"
     /\ last.invoked[1].outcome.value.exception.kind = "RpcTransportError")
    => /\ last.returned = "result"
       /\ last.result.stdout = ""
       /\ last.result.stderr = ""
       /\ "exception" \in DOMAIN last.result
       /\ last.result.exception.kind = "RpcTransportError"

\* C10: after an RPC response that carries a remote exception the
\* dispatcher returns a result with empty stdout and stderr, has logged the
\* exception as an error, and raises nothing.
C10_RemoteExceptionReset ==
    (/\ Dispatched
     /\ last.invoked[1].backend = "CrossRuntimeRpc"
     /\ last.invoked[1].outcome.value.exception.kind = "InProcessException")
    => /\ last.returned = "result"
       /\ last.result.stdout = ""
       /\ last.result.stderr = ""
       /\ \E i \in DOMAIN last.log : last.log[i] = log_error("exception")

\* the number of entries of one level in a log
CountLevel(log, level) == Cardinality({ i \in DOMAIN log : log[i].level = level })

\* the calls of _run_tool_on_document and the pre-filter their document meets
OnDocument == last.op = "run_on_document"
IsCell(document) == document.uri.scheme = "vscode-notebook-cell"

\* C11: when the in-process backend raises, either entry point logs the
\* fault as an error exactly once and raises it again: it returns no result
\* and does not write its final log of the tool's stdout.
C11_InProcessFault ==
    (Dispatched /\ last.invoked[1].backend = "InProcessModule"
       /\ last.invoked[1].outcome.raises)
    => /\ last.returned = "raised"
       /\ last.result = EmptyDict
       /\ CountLevel(last.log, "Error") = 1
       /\ \A i \in DOMAIN last.log : last.log[i].what \notin {"stdout", "uri and stdout"}

\* _run_tool ended by the exception of its in-process backend
C11_Witness ==
    /\ Dispatched /\ last.op = "run_tool"
    /\ last.invoked[1].backend = "InProcessModule"
    /\ last.invoked[1].outcome.raises
    /\ last.returned = "raised"

\* C12: a document that is no notebook cell and whose content fails to
\* parse is skipped with a warning and not an error: the call logs exactly
\* one warning and no error, calls no backend and returns no result.
C12_ParseFailureSkip ==
    (OnDocument /\ ~IsCell(last.document) /\ ~Parses(last.document.source))
    => /\ last.returned = "None"
       /\ last.invoked = <<>>
       /\ CountLevel(last.log, "Warning") = 1
       /\ CountLevel(last.log, "Error") = 0

\* C13 as amended: a document of the standard library that is no notebook
\* cell and whose content parses is skipped in silence: no backend is
\* called, nothing is returned and the call logs nothing at any level.
C13_StdlibSkipSilent ==
    (OnDocument /\ ~IsCell(last.document) /\ is_stdlib_file(last.document.path)
       /\ Parses(last.document.source))
    => /\ last.returned = "None"
       /\ last.invoked = <<>>
       /\ last.log = <<>>

\* a parsing document of the standard library was skipped
C13_Witness ==
    /\ OnDocument /\ is_stdlib_file(last.document.path)
    /\ Parses(last.document.source)
    /\ last.stage = "skipped"

\* C13 as stated: every document of the standard library that is no notebook
\* cell is skipped without any log entry, whatever its content.
C13_AnyContent ==
    (OnDocument /\ ~IsCell(last.document) /\ is_stdlib_file(last.document.path))
    => /\ last.returned = "None"
       /\ last.invoked = <<>>
       /\ last.log = <<>>

\* the first value of sys.path
ImportPath == update_sys_path(StartPath, LibsDir, ImportStrategy)

\* once no call is inside the substitution, sys.path has its first value
PathRestored == (Inside = {}) => sys_path = ImportPath

\* C14: with two workers running in-process calls, at most one of them is
\* inside the substitution of sys.path at a time, and once all calls have
\* ended sys.path is what it was before any of them started.
C14_MutualExclusion ==
    /\ Cardinality(Inside) <= 1
    /\ PathRestored

\* C15: an in-process call that no other in-process call overlaps runs the
\* tool against a copy of sys.path, and when it ends, by return or by
\* exception, sys.path is what it was when the call started, even if the
\* tool changed the path.
C15_ScopedRestore ==
    (Dispatched /\ last.invoked[1].backend = "InProcessModule" /\ last.alone)
    => /\ last.scoped
       /\ sys_path = last.path_before

\* a call that was alone, whose tool changed the path and raised
C15_Witness ==
    /\ Dispatched /\ last.invoked[1].backend = "InProcessModule" /\ last.alone
    /\ last.invoked[1].outcome.raises
    /\ last.path_during # last.path_before

\* C16: a call of either entry point leaves the settings store and the
\* global settings as it found them: extending argv, which starts as the
\* record's tool path, does not grow the stored tool path, and the record
\* made up for a document without workspace is not put into the store.
C16_DispatchLeavesSettings ==
    (last.op \in {"run_on_document", "run_tool"})
    => /\ WORKSPACE_SETTINGS = last.before.store
       /\ GLOBAL_SETTINGS = last.before.globals

\* a call ran the tool path of a stored record with arguments added to it
C16_Witness ==
    /\ Dispatched /\ last.flags.use_path
    /\ \E i \in DOMAIN WORKSPACE_SETTINGS :
          /\ WORKSPACE_SETTINGS[i].key = last.settings.workspaceFS
          /\ WORKSPACE_SETTINGS[i].val.path = last.settings.path
          /\ Len(last.invoked[1].request.argv) > Len(WORKSPACE_SETTINGS[i].val.path)

\* the calls of either entry point
EntryPoint == last.op \in {"run_on_document", "run_tool"}

\* C17: a call of either entry point calls at most one backend and calls it
\* at most once; it calls none when a pre-filter skips the document, and a
\* notebook cell is skipped before any settings are resolved, anything is
\* logged or a backend is called.
C17_BackendCalls ==
    EntryPoint
    => /\ Len(last.invoked) <= 1
       /\ (OnDocument /\ (IsCell(last.document) \/ ~Parses(last.document.source)
                            \/ is_stdlib_file(last.document.path)))
            => (last.invoked = <<>> /\ last.returned = "None")
       /\ (OnDocument /\ IsCell(last.document))
            => (last.log = <<>> /\ "settings" \notin DOMAIN last)

\* a notebook cell was skipped
C17_Witness ==
    /\ OnDocument /\ IsCell(last.document)
    /\ last.stage = "skipped"
    /\ last.invoked = <<>>

\* C18: for a document with a path none of whose ancestor directories is a
\* stored workspace root (the empty store included), the resolver returns a
\* record made up for it: cwd and workspace root are the document's parent
\* directory, the other fields are the global defaults.
C18_NoWorkspaceDocument ==
    (last.op = "resolve" /\ ~last.document.isNone /\ last.document.hasPath
       /\ AncestorRoots(WORKSPACE_SETTINGS, last.document.path) = {})
    => LET defaults == _get_global_defaults(GLOBAL_SETTINGS)
           parent == Parent(last.document.path)
       IN  /\ last.out.ok
           /\ last.out.rec.cwd = parent
           /\ last.out.rec.workspaceFS = parent
           /\ last.out.rec.workspace = from_fs_path(parent)
           /\ DOMAIN last.out.rec = DOMAIN defaults \cup {"cwd", "workspaceFS", "workspace"}
           /\ \A k \in DOMAIN defaults : last.out.rec[k] = defaults[k]

\* a document outside every stored root was resolved in a store that has
\* roots, with global settings that differ from the built-in defaults
C18_Witness ==
    /\ last.op = "resolve" /\ ~last.document.isNone /\ last.document.hasPath
    /\ WORKSPACE_SETTINGS # <<>>
    /\ AncestorRoots(WORKSPACE_SETTINGS, last.document.path) = {}
    /\ GLOBAL_SETTINGS # EmptyDict
    /\ last.out.ok /\ last.out.rec.args = <<"-g">>

\* C19: without a document the resolver returns the first record of a
\* non-empty store in insertion order, so that once a replace with a
\* non-empty payload has ended, resolving without a document gives the
\* record of the payload's first entry.
C19_FirstOfPayload ==
    /\ (last.op = "resolve" /\ last.document.isNone /\ WORKSPACE_SETTINGS # <<>>)
         => last.out = Returned(WORKSPACE_SETTINGS[1].val)
    /\ (last.op = "initialize" /\ last.settings # <<>>)
         => _get_settings_by_document(WORKSPACE_SETTINGS, GLOBAL_SETTINGS, NoDocument)
              = Returned(EntryRecord(to_fs_path(last.settings[1].workspace),
                                     last.settings[1]))

\* C20: every record of the store carries its own key as workspaceFS, also
\* when the payload entry it was made from has a workspaceFS or a cwd of its
\* own; so the lookup that follows a match of the walk never fails.
C20_StoreKeyInvariant ==
    /\ \A i \in DOMAIN WORKSPACE_SETTINGS :
          WORKSPACE_SETTINGS[i].val.workspaceFS = WORKSPACE_SETTINGS[i].key
    /\ (last.op \in {"resolve", "resolve_by_path"}) => last.out.exc # "KeyError"
    /\ EntryPoint => last.exc # "KeyError"

\* the store holds a record made from an entry with a workspaceFS and a cwd
\* of its own, and a walk matched a record and looked it up
C20_Witness ==
    /\ \E i \in DOMAIN WORKSPACE_SETTINGS :
          WORKSPACE_SETTINGS[i].val.cwd # WORKSPACE_SETTINGS[i].key
    /\ last.op = "resolve" /\ last.document.hasPath /\ last.out.ok
    /\ \E i \in DOMAIN WORKSPACE_SETTINGS :
          /\ IsPrefix(WORKSPACE_SETTINGS[i].key, last.document.path)
          /\ WORKSPACE_SETTINGS[i].val = last.out.rec
====
